---- MODULE Spec2Model ----
(***************************************************************************)
(* Model of the Pterodactyl panel client (utils/api.py, class PteroAPI)    *)
(* and of the createserver command built on it (cogs/servers.py).          *)
(*                                                                         *)
(* Every action is one HTTP request together with the code that runs on    *)
(* its response up to the next await or to the end of the method.  The     *)
(* panel is the environment: it answers every request with a request       *)
(* error or with a status code, a JSON body (which may fail to decode)     *)
(* and a body text.  The only panel state the model keeps is the list of   *)
(* user accounts, which the user endpoints read and create-user extends.   *)
(***************************************************************************)
EXTENDS Integers, Sequences, FiniteSets, TLC

VARIABLES task, accounts, posted, admin_log_channel_id

vars == <<task, accounts, posted, admin_log_channel_id>>

(***************************************************************************)
(* Bounds of the model.                                                    *)
(***************************************************************************)
MaxNests == 2
MaxEggs == 2
MaxAccounts == 2

Tasks == {1, 2}

(***************************************************************************)
(* JSON values.  An object is a record of the keys the code reads: `id`,   *)
(* `email` and `attributes`; `attrs` is <<>> when the key `attributes` is  *)
(* missing and <<o>> when it holds the object o.  Absent stands for a      *)
(* missing `id` key (Python None), NoEmail for a missing `email` key.      *)
(***************************************************************************)
Absent == -1
NoEmail == <<>>
NoText == "-"

Leaf(i, e) == [attrs |-> <<>>, id |-> i, email |-> e]
Env(o) == [attrs |-> <<o>>, id |-> Absent, email |-> NoEmail]
EmptyObj == Leaf(Absent, NoEmail)

\* resp.get("attributes", resp)
Normalize(o) == IF o.attrs # <<>> THEN o.attrs[1] ELSE o

\* u.get("attributes", {})
AttributesOrEmpty(o) == IF o.attrs # <<>> THEN o.attrs[1] ELSE EmptyObj

\* `not nest_id`
Falsy(i) == i = Absent \/ i = 0

RECURSIVE SeqsUpTo(_, _)
SeqsUpTo(S, n) ==
  IF n = 0 THEN {<<>>}
  ELSE LET Shorter == SeqsUpTo(S, n - 1)
       IN Shorter \cup {Append(s, x) : s \in {q \in Shorter : Len(q) = n - 1}, x \in S}

(***************************************************************************)
(* The synthetic email of a chat identity, f"discord-{user.id}@local",     *)
(* as the sequence of its characters.                                      *)
(***************************************************************************)
DigitChar(d) == <<"0", "1", "2", "3", "4", "5", "6", "7", "8", "9">>[d + 1]

RECURSIVE Decimal(_)
Decimal(n) == IF n < 10 THEN <<DigitChar(n)>> ELSE Append(Decimal(n \div 10), DigitChar(n % 10))

EmailPrefix == <<"d", "i", "s", "c", "o", "r", "d", "-">>
EmailSuffix == <<"@", "l", "o", "c", "a", "l">>

SyntheticEmailLastDigit(user_id) == EmailPrefix \o Decimal(user_id % 10) \o EmailSuffix

SyntheticEmail(user_id) == EmailPrefix \o Decimal(user_id) \o EmailSuffix

(***************************************************************************)
(* Inputs.                                                                 *)
(***************************************************************************)
MaxUserId == 12
UserIds == {2, MaxUserId}
ResourceIds == {1, 2}
Emails == {SyntheticEmail(u) : u \in UserIds}
Statuses == {200, 201, 204, 404}
Texts == {"invalid", "denied"}

Objects == {Leaf(i, NoEmail) : i \in ResourceIds} \cup {Env(Leaf(i, NoEmail)) : i \in ResourceIds}
NestEntries == {Env(Leaf(i, NoEmail)) : i \in ResourceIds} \cup {Leaf(1, NoEmail), Env(Leaf(0, NoEmail))}
EggEntries == Objects
NestPages == SeqsUpTo(NestEntries, MaxNests)
EggPages == SeqsUpTo(EggEntries, MaxEggs)

\* The accounts the panel may hold at the start: each listed enveloped or
\* bare, numbered in list order.
UserShapes == {[enveloped |-> b, email |-> e] : b \in BOOLEAN, e \in Emails}
UserEntry(shape, i) == IF shape.enveloped THEN Env(Leaf(i, shape.email)) ELSE Leaf(i, shape.email)
AccountLists == {[i \in 1..Len(s) |-> UserEntry(s[i], i)] : s \in SeqsUpTo(UserShapes, MaxAccounts)}

(***************************************************************************)
(* What the panel answers.  `fail` is a request that raises in aiohttp     *)
(* (connection error).  Otherwise the response has a status and a body:    *)
(* a JSON value b, which r.json() decodes (json = <<b>>) and r.text()      *)
(* returns serialized, or a text that is not JSON, on which r.json()       *)
(* raises (json = <<>>).                                                   *)
(***************************************************************************)
Response(fail, status, json, text) == [fail |-> fail, status |-> status, json |-> json, text |-> text]
NoResponse == Response(FALSE, 0, <<>>, NoText)

Responses(Bodies) ==
  {Response(TRUE, 0, <<>>, NoText)}
  \cup {Response(FALSE, s, <<b>>, "{json}") : s \in Statuses, b \in Bodies}
  \cup {Response(FALSE, s, <<>>, x) : s \in Statuses, x \in Texts}

\* The summary of an answer: the status (0 for a request that raised) and
\* whether the body was JSON.
Summary(r) == [status |-> IF r.fail THEN 0 ELSE r.status, json |-> r.json # <<>>]

(***************************************************************************)
(* Requests, results and messages.                                         *)
(***************************************************************************)
Req(verb, path, id, email) == [verb |-> verb, path |-> path, id |-> id, email |-> email]

\* A PteroError message: the f-string `fmt` and the values it embeds.
Msg(fmt, id, status, text) == [fmt |-> fmt, id |-> id, status |-> status, text |-> text]
NoMsg == Msg("", Absent, Absent, NoText)

\* How a method ends: it returns (an object, None, True, a list) or raises.
Return(o) == [kind |-> "object", val |-> <<o>>, msg |-> NoMsg]
ReturnNone == [kind |-> "None", val |-> <<>>, msg |-> NoMsg]
ReturnTrue == [kind |-> "True", val |-> <<>>, msg |-> NoMsg]
ReturnList(l) == [kind |-> "list", val |-> l, msg |-> NoMsg]
PteroError(m) == [kind |-> "PteroError", val |-> <<>>, msg |-> m]
Exception(name) == [kind |-> "Exception", val |-> <<>>, msg |-> Msg(name, Absent, Absent, NoText)]
Pending == [kind |-> "pending", val |-> <<>>, msg |-> NoMsg]

(***************************************************************************)
(* The methods of PteroAPI that issue one request: the result as a         *)
(* function of the arguments and of the panel's answer r.                  *)
(***************************************************************************)
get_node(node_id, r) ==
  IF r.fail THEN Exception("ClientError")
  ELSE IF r.status = 200
       THEN IF r.json = <<>> THEN Exception("JSONDecodeError") ELSE Return(Normalize(r.json[1]))
       ELSE PteroError(Msg("Node {node_id} not found (status {status})", node_id, r.status, NoText))

get_server(server_id, r) ==
  IF r.fail THEN Exception("ClientError")
  ELSE IF r.status = 200
       THEN IF r.json = <<>> THEN Exception("JSONDecodeError") ELSE Return(r.json[1])
       ELSE PteroError(Msg("Get server failed: status {status}: {text}", Absent, r.status, r.text))

list_users(r) ==
  IF r.fail THEN Exception("ClientError")
  ELSE IF r.status = 200
       THEN IF r.json = <<>> THEN Exception("JSONDecodeError") ELSE ReturnList(r.json[1])
       ELSE PteroError(Msg("List users failed (status {status})", Absent, r.status, NoText))

list_servers(r) ==
  IF r.fail THEN Exception("ClientError")
  ELSE IF r.status = 200
       THEN IF r.json = <<>> THEN Exception("JSONDecodeError") ELSE ReturnList(r.json[1])
       ELSE PteroError(Msg("List servers failed: status {status}", Absent, r.status, NoText))

list_nodes(r) ==
  IF r.fail THEN Exception("ClientError")
  ELSE IF r.status = 200
       THEN IF r.json = <<>> THEN Exception("JSONDecodeError")
            ELSE ReturnList([i \in 1..Len(r.json[1]) |-> Normalize(r.json[1][i])])
       ELSE PteroError(Msg("Failed to list nodes", Absent, Absent, NoText))

\* create_user with the body text left out of the message.
create_user_without_text(r) ==
  IF r.fail THEN Exception("ClientError")
  ELSE IF r.status \in {200, 201}
       THEN IF r.json = <<>> THEN Exception("JSONDecodeError") ELSE Return(Normalize(r.json[1]))
       ELSE PteroError(Msg("Create user failed: status {status}", Absent, r.status, NoText))

create_user(r) ==
  IF r.fail THEN Exception("ClientError")
  ELSE IF r.status \in {200, 201}
       THEN IF r.json = <<>> THEN Exception("JSONDecodeError") ELSE Return(Normalize(r.json[1]))
       ELSE PteroError(Msg("Create user failed: status {status}: {text}", Absent, r.status, r.text))

create_server(r) ==
  IF r.fail THEN Exception("ClientError")
  ELSE IF r.status \in {200, 201}
       THEN IF r.json = <<>> THEN Exception("JSONDecodeError") ELSE Return(Normalize(r.json[1]))
       ELSE PteroError(Msg("Create server failed: status {status}: {text}", Absent, r.status, r.text))

\* delete_user, change_user_password, delete_server, suspend_server,
\* unsuspend_server and set_server_resources differ in the verb, the path
\* and the words of the message only.
\* Mutate with 201 in the place of 204.
MutateOn201(fmt, r) ==
  IF r.fail THEN Exception("ClientError")
  ELSE IF r.status \in {200, 201} THEN ReturnTrue
       ELSE PteroError(Msg(fmt, Absent, r.status, r.text))

Mutate(fmt, r) ==
  IF r.fail THEN Exception("ClientError")
  ELSE IF r.status \in {200, 204} THEN ReturnTrue
       ELSE PteroError(Msg(fmt, Absent, r.status, r.text))

MutateFmt(m) ==
  CASE m = "delete_user" -> "Delete user failed: status {status}: {text}"
    [] m = "change_user_password" -> "Change password failed: status {status}: {text}"
    [] m = "delete_server" -> "Delete server failed: status {status}: {text}"
    [] m = "suspend_server" -> "Suspend failed: status {status}: {text}"
    [] m = "unsuspend_server" -> "Unsuspend failed: status {status}: {text}"
    [] m = "set_server_resources" -> "Set resources failed: status {status}: {text}"

MutateMethods == {"delete_user", "change_user_password", "delete_server", "suspend_server",
                  "unsuspend_server", "set_server_resources"}
FetchMethods == {"get_node", "get_server"}
ListMethods == {"list_users", "list_servers", "list_nodes"}
CreateMethods == {"create_user", "create_server"}
OneRequestMethods == FetchMethods \cup ListMethods \cup CreateMethods \cup MutateMethods

\* A str result: the f-string and the status it embeds.
ReturnStr(fmt, status) == [kind |-> "str", val |-> <<>>, msg |-> Msg(fmt, Absent, status, NoText)]

panel_status(r) ==
  IF r.fail THEN Exception("ClientError")
  ELSE IF r.status = 200 THEN ReturnStr("OK", Absent)
       ELSE ReturnStr("Unclear (status {status})", r.status)

list_backups(r) ==
  IF r.fail THEN Exception("ClientError")
  ELSE IF r.status = 200
       THEN IF r.json = <<>> THEN Exception("JSONDecodeError") ELSE ReturnList(r.json[1])
       ELSE PteroError(Msg("List backups failed: status {status}", Absent, r.status, NoText))

ProbeMethods == {"panel_status", "list_backups"}
SearchMethods == {"search_servers", "search_users"}
OtherMethods == ProbeMethods \cup SearchMethods \cup {"list_eggs"}

(***************************************************************************)
(* Text.  A string is the sequence of its characters.                      *)
(***************************************************************************)
Min(a, b) == IF a < b THEN a ELSE b

\* s[:n + 1]
PrefixInclusive(s, n) == SubSeq(s, 1, Min(Len(s), n + 1))

\* s[:n]
Prefix(s, n) == SubSeq(s, 1, Min(Len(s), n))

\* str.lower(), over the letters the model uses
LowerChar(c) == CASE c = "A" -> "a" [] c = "B" -> "b" [] c = "C" -> "c" [] OTHER -> c
Lower(s) == [i \in 1..Len(s) |-> LowerChar(s[i])]

\* `q in s`
Contains(q, s) == \E i \in 0..(Len(s) - Len(q)) : SubSeq(s, i + 1, i + Len(q)) = q

\* The JSON body create_user posts.
MaxNameLen == 191

create_user_payload(input, email) ==
  [username |-> Prefix(input.username, MaxNameLen),
   email |-> email,
   first_name |-> Prefix(input.first_name, MaxNameLen),
   last_name |-> Prefix(input.last_name, MaxNameLen),
   password |-> input.password]

(***************************************************************************)
(* Client-side search: search_servers and search_users list page 1 and     *)
(* keep the `attributes` of the entries one of whose fields contains the   *)
(* query, both lowered.                                                    *)
(***************************************************************************)
\* a.get(key, "")
Field(a, key) == IF key \in DOMAIN a THEN a[key] ELSE <<>>

\* item.get("attributes", {})
EmptyDict == [attrs |-> <<>>]
SearchAttributes(item) == IF item.attrs # <<>> THEN item.attrs[1] ELSE EmptyDict

QueryMatches(query, a, fields) == \E k \in fields : Contains(Lower(query), Lower(Field(a, k)))

SearchPage(page, query, fields) ==
  SelectSeq([i \in 1..Len(page) |-> SearchAttributes(page[i])],
            LAMBDA a : QueryMatches(query, a, fields))

search_servers(query, r) ==
  IF list_servers(r).kind = "list"
  THEN ReturnList(SearchPage(list_servers(r).val, query, {"name", "identifier"}))
  ELSE list_servers(r)

search_users(query, r) ==
  IF list_users(r).kind = "list"
  THEN ReturnList(SearchPage(list_users(r).val, query, {"username", "email"}))
  ELSE list_users(r)

\* The request a one-request method sends.
RequestOf(m, id, email) ==
  CASE m = "get_node" -> Req("GET", "nodes/{node_id}", id, NoEmail)
    [] m = "get_server" -> Req("GET", "servers/{server_id}", id, NoEmail)
    [] m = "list_users" -> Req("GET", "users?page={page}", 1, NoEmail)
    [] m = "list_servers" -> Req("GET", "servers?page={page}", 1, NoEmail)
    [] m = "list_nodes" -> Req("GET", "nodes", Absent, NoEmail)
    [] m = "create_user" -> Req("POST", "users", Absent, email)
    [] m = "create_server" -> Req("POST", "servers", Absent, NoEmail)
    [] m = "delete_user" -> Req("DELETE", "users/{user_id}", id, NoEmail)
    [] m = "change_user_password" -> Req("POST", "users/{user_id}/reset-password", id, NoEmail)
    [] m = "delete_server" -> Req("DELETE", "servers/{server_id}", id, NoEmail)
    [] m = "suspend_server" -> Req("POST", "servers/{server_id}/suspend", id, NoEmail)
    [] m = "unsuspend_server" -> Req("POST", "servers/{server_id}/unsuspend", id, NoEmail)
    [] m = "set_server_resources" -> Req("PATCH", "servers/{server_id}/build", id, NoEmail)
    [] m = "panel_status" -> Req("GET", "", Absent, NoEmail)
    [] m = "list_backups" -> Req("GET", "servers/{server_id}/backups", id, NoEmail)

\* The result of a one-request method.
ResultOf(m, id, r) ==
  CASE m = "get_node" -> get_node(id, r)
    [] m = "get_server" -> get_server(id, r)
    [] m = "list_users" -> list_users(r)
    [] m = "list_servers" -> list_servers(r)
    [] m = "list_nodes" -> list_nodes(r)
    [] m = "create_user" -> create_user(r)
    [] m = "create_server" -> create_server(r)
    [] m \in MutateMethods -> Mutate(MutateFmt(m), r)
    [] m = "panel_status" -> panel_status(r)
    [] m = "list_backups" -> list_backups(r)

(***************************************************************************)
(* The two resolvers that issue several requests.                          *)
(***************************************************************************)
\* n.get("attributes", {}).get("id")
NestId(n) == AttributesOrEmpty(n).id

\* The next nest after position i whose id is not skipped by
\* `if not nest_id: continue`; 0 when the loop over the nests is over.
NextNestFromTheEnd(nestlist, i) ==
  LET Later == {j \in (i + 1)..Len(nestlist) : ~Falsy(NestId(nestlist[j]))}
  IN IF Later = {} THEN 0 ELSE CHOOSE j \in Later : \A k \in Later : j >= k

NextNest(nestlist, i) ==
  LET Later == {j \in (i + 1)..Len(nestlist) : ~Falsy(NestId(nestlist[j]))}
  IN IF Later = {} THEN 0 ELSE CHOOSE j \in Later : \A k \in Later : j <= k

\* egg.get("attributes", {}).get("id") == egg_id or egg.get("id") == egg_id
EggMatches(egg, egg_id) == AttributesOrEmpty(egg).id = egg_id \/ egg.id = egg_id

\* The first egg of the list that matches, as <<egg>>, or <<>>.
FirstEgg(eggs, egg_id) ==
  LET Hits == {j \in 1..Len(eggs) : EggMatches(eggs[j], egg_id)}
  IN IF Hits = {} THEN <<>> ELSE <<eggs[CHOOSE j \in Hits : \A k \in Hits : j <= k]>>

EggNotFoundUnnamed(egg_id) == PteroError(Msg("Egg not found", Absent, Absent, NoText))

EggNotFound(egg_id) == PteroError(Msg("Egg {egg_id} not found", egg_id, Absent, NoText))

\* The fallback scan of find_user_by_email over the listed users.
ScanUsers(users, email) ==
  LET Hits == {j \in 1..Len(users) : AttributesOrEmpty(users[j]).email = email}
  IN IF Hits = {} THEN ReturnNone
     ELSE Return(AttributesOrEmpty(users[CHOOSE j \in Hits : \A k \in Hits : j <= k]))

\* The 200 branch of the filtered query taking the last entry of the page.
FirstOfPageLast(data) == IF data = <<>> THEN ReturnNone ELSE Return(Normalize(data[Len(data)]))

\* The filtered query's 200 branch: the first entry of the page, normalized.
FirstOfPage(data) == IF data = <<>> THEN ReturnNone ELSE Return(Normalize(data[1]))

(***************************************************************************)
(* The panel's user endpoints answer from the accounts it holds.           *)
(***************************************************************************)
PanelFilterPage(email) == SelectSeq(accounts, LAMBDA u : Normalize(u).email = email)

\* The panel's filter may match loosely: the page of a filtered query holds
\* every account with the requested email and possibly others, in the
\* order of the accounts.
Subsequences(s) ==
  {LET kept == SelectSeq([i \in 1..Len(s) |-> i], LAMBDA i : keep[i])
   IN [k \in 1..Len(kept) |-> s[kept[k]]] : keep \in [1..Len(s) -> BOOLEAN]}
PanelFilterPages(email) ==
  {page \in Subsequences(accounts) :
     SelectSeq(page, LAMBDA u : Normalize(u).email = email) = PanelFilterPage(email)}
PanelNewAccount(email) == Leaf(Len(accounts) + 1, email)

Bodies(m, email) ==
  CASE m \in {"get_node", "get_server", "create_server"} -> Objects
    [] m = "list_users" -> {accounts}
    [] m = "list_servers" -> {<<>>}
    [] m = "list_nodes" -> {<<>>, <<Leaf(1, NoEmail), Env(Leaf(2, NoEmail))>>}
    [] m = "create_user" -> {PanelNewAccount(email), Env(PanelNewAccount(email))}
    [] m \in MutateMethods -> {}
    [] m = "panel_status" -> {EmptyObj}
    [] m = "list_backups" -> {<<>>}

(***************************************************************************)
(* The createserver command (cogs/servers.py).                             *)
(***************************************************************************)
MinRam == 128
MaxRamExclusive == 32768 - 1
MaxRam == 32768
MinCpu == 1
MaxCpu == 400
MinDisk == 100
MaxDisk == 1000000

\* The arguments of a command: `target` is the server_id or user_id of the
\* commands that take one, `user` the member to notify.
NoCmd ==
  [node_id |-> Absent, egg_id |-> Absent, user |-> Absent, ram |-> 0, cpu |-> 0, disk |-> 0,
   target |-> Absent]
NoReply == [kind |-> "none", text |-> "", msg |-> NoMsg]

\* The arguments of create_user other than the email.
NoInput == [username |-> <<>>, first_name |-> <<>>, last_name |-> <<>>, password |-> <<>>]

\* `executor` is interaction.user.id; `calls` are the client methods the call
\* or command has entered, in order, and `outs` how those that ended have
\* ended; `payload` is the JSON body of the create-user request; `events`
\* are the calls of member.send, get_channel and channel.send the command
\* has made, in order, each with whether it went through.
IdleTask ==
  [op |-> "idle", pc |-> "idle", m |-> "", id |-> Absent, email |-> NoEmail, cmd |-> NoCmd,
   nests |-> <<>>, ni |-> 0, out |-> Pending, reqs |-> <<>>, first |-> <<>>, answer |-> NoResponse,
   panel_user_email |-> NoEmail, panel_user |-> <<>>, created_password |-> <<>>,
   sent |-> <<>>, reply |-> NoReply,
   executor |-> Absent, calls |-> <<>>, outs |-> <<>>, query |-> <<>>, input |-> NoInput,
   payload |-> <<>>, eggs |-> <<>>, events |-> <<>>]

(***************************************************************************)
(* The commands of the three cogs and the check that gates them.           *)
(***************************************************************************)
ADMIN_IDS == {1}
Executors == {1, 3}

\* The predicate of admin_check that lets every executor pass.
admin_check_anyone(user_id) == TRUE

\* interaction.user.id in ADMIN_IDS
admin_check(user_id) == user_id \in ADMIN_IDS

ServersCommands ==
  {"createserver", "ServersCog.delete_server", "ServersCog.suspend", "ServersCog.unsuspend",
   "ServersCog.list_servers", "ServersCog.server_info", "ServersCog.server_search",
   "ServersCog.set_resources"}
UsersCommands ==
  {"UsersCog.user_list", "UsersCog.user_search", "UsersCog.delete_user", "UsersCog.change_password"}
PanelCommands ==
  {"PanelCog.nodes", "PanelCog.eggs", "PanelCog.panel_status", "PanelCog.maintenance_on",
   "PanelCog.maintenance_off", "PanelCog.backup_list", "PanelCog.ping", "PanelCog.help",
   "PanelCog.manage"}
Commands == ServersCommands \cup UsersCommands \cup PanelCommands

\* The commands decorated with @admin_check().
Gated(name) == name \notin {"PanelCog.ping", "PanelCog.help"}

\* The commands that send the member a direct message after the panel call.
NotifyingCommands ==
  {"ServersCog.delete_server", "ServersCog.suspend", "ServersCog.unsuspend",
   "ServersCog.set_resources", "UsersCog.delete_user"}

\* The attribute of self.ptero a command calls; "" for the commands that
\* call none.
CommandMethod(name) ==
  CASE name = "ServersCog.delete_server" -> "delete_server"
    [] name = "ServersCog.suspend" -> "suspend_server"
    [] name = "ServersCog.unsuspend" -> "unsuspend_server"
    [] name = "ServersCog.list_servers" -> "list_servers"
    [] name = "ServersCog.server_info" -> "get_server"
    [] name = "ServersCog.server_search" -> "search_servers"
    [] name = "ServersCog.set_resources" -> "set_server_resources"
    [] name = "UsersCog.user_list" -> "list_users"
    [] name = "UsersCog.user_search" -> "search_users"
    [] name = "UsersCog.delete_user" -> "delete_user"
    [] name = "UsersCog.change_password" -> "change_user_password"
    [] name = "PanelCog.nodes" -> "list_nodes"
    [] name = "PanelCog.eggs" -> "list_eggs"
    [] name = "PanelCog.panel_status" -> "panel_status"
    [] name = "PanelCog.maintenance_on" -> "maintenance_on"
    [] name = "PanelCog.maintenance_off" -> "maintenance_off"
    [] name = "PanelCog.backup_list" -> "list_backups"
    [] OTHER -> ""

\* The methods class PteroAPI defines.
PteroAPIMethods ==
  OneRequestMethods \cup OtherMethods \cup {"get_egg", "find_user_by_email", "generate_password"}

\* The text of the error reply of a command whose panel call raised PteroError.
ErrorText(name) ==
  CASE name = "ServersCog.delete_server" -> "Server deletion failed: {e}"
    [] name = "ServersCog.suspend" -> "Suspend failed: {e}"
    [] name = "ServersCog.unsuspend" -> "Unsuspend failed: {e}"
    [] name = "ServersCog.list_servers" -> "Failed to list servers: {e}"
    [] name = "ServersCog.server_info" -> "Failed to get server: {e}"
    [] name = "ServersCog.server_search" -> "Search failed: {e}"
    [] name = "ServersCog.set_resources" -> "Failed to set resources: {e}"
    [] name = "UsersCog.user_list" -> "Failed to list users: {e}"
    [] name = "UsersCog.user_search" -> "Search failed: {e}"
    [] name = "UsersCog.delete_user" -> "Failed to delete user: {e}"
    [] name = "UsersCog.change_password" -> "Failed to change password: {e}"
    [] name = "PanelCog.nodes" -> "Failed to list nodes: {e}"
    [] name = "PanelCog.eggs" -> "Failed to list eggs: {e}"
    [] name = "PanelCog.panel_status" -> "Failed to get panel status: {e}"
    [] name = "PanelCog.maintenance_on" -> "Failed to enable maintenance: {e}"
    [] name = "PanelCog.maintenance_off" -> "Failed to disable maintenance: {e}"
    [] name = "PanelCog.backup_list" -> "Failed to list backups: {e}"

\* The last reply of a command that went through: its kind and its text.
SuccessKind(name) ==
  IF name \in NotifyingCommands \cup {"createserver", "UsersCog.change_password",
                                      "PanelCog.maintenance_on", "PanelCog.maintenance_off"}
  THEN "success" ELSE "info"

SuccessText(name) ==
  CASE name = "createserver" -> "Server creation initiated and user notified (or logged)."
    [] name = "ServersCog.delete_server" -> "Server deleted and user notified (or logged)."
    [] name = "ServersCog.suspend" -> "Server suspended and user notified (or logged)."
    [] name = "ServersCog.unsuspend" -> "Server unsuspended and user notified (or logged)."
    [] name = "ServersCog.set_resources" -> "Resources updated and user notified (or logged)."
    [] name = "UsersCog.delete_user" -> "User deleted and discord user notified (or logged)."
    [] name = "UsersCog.change_password" -> "Password Changed"
    [] name = "PanelCog.maintenance_on" -> "Maintenance enabled."
    [] name = "PanelCog.maintenance_off" -> "Maintenance disabled."
    [] name = "PanelCog.ping" -> "Pong!"
    [] name = "PanelCog.help" -> "Commands available. Use the slash command autocomplete for parameters."
    [] name = "PanelCog.manage" -> "Interactive management panel (expires in 120s)"
    [] OTHER -> "embed"

\* The check of a gated command fails: the callback does not run.
CheckFailure(T) == [T EXCEPT !.pc = "done", !.reply = [kind |-> "check_failure", text |-> "", msg |-> NoMsg]]

\* The command T is invoked: its checks run before its callback.
Gate(T) == IF Gated(T.op) /\ ~admin_check(T.executor) THEN CheckFailure(T) ELSE T

\* Enter a method of PteroAPI.
CallMethod(T, m, id, email) ==
  [T EXCEPT !.m = m, !.id = id, !.email = email, !.pc = m, !.reqs = <<>>,
            !.nests = <<>>, !.ni = 0, !.out = Pending, !.calls = Append(T.calls, m)]

\* The error reply without the `return`: the command goes on to create the
\* server.
ErrorReplyWithoutReturn(T, text) ==
  [T EXCEPT !.m = "create_server", !.pc = "create_server", !.reqs = <<>>,
            !.calls = Append(T.calls, "create_server"),
            !.reply = [kind |-> "error", text |-> text, msg |-> T.out.msg]]

\* interaction.followup.send(embed=self.embed.error(...)) and return
ErrorReply(T, text) == [T EXCEPT !.pc = "done", !.reply = [kind |-> "error", text |-> text, msg |-> T.out.msg]]

\* an exception that no handler of the command catches
Propagate(T) == [T EXCEPT !.pc = "done", !.reply = [kind |-> "raised", text |-> "", msg |-> T.out.msg]]

\* create_server(..., user_id=panel_user["id"], ...)
ThenCreateServer(T) ==
  IF T.panel_user[1].id = Absent
  THEN Propagate([T EXCEPT !.out = Exception("KeyError")])
  ELSE CallMethod(T, "create_server", Absent, NoEmail)

\* What createserver passes to create_user for the member: the username
\* f"{user.display_name}-{user.id}", the first name user.display_name[:50],
\* an empty last name and the generated password.
DisplayName(user) == <<"m">> \o Decimal(user)

NewUserInput(user) ==
  [username |-> DisplayName(user) \o <<"-">> \o Decimal(user),
   first_name |-> Prefix(DisplayName(user), 50),
   last_name |-> <<>>,
   password |-> <<"generated">>]

\* createserver after the method T.m has ended with the result o.
createserver(T, o) ==
  LET T1 == [T EXCEPT !.out = o]
  IN CASE o.kind = "Exception" -> Propagate(T1)
       [] o.kind # "Exception" /\ T.m = "get_node" ->
            IF o.kind = "PteroError" THEN ErrorReply(T1, "Node validation failed: {e}")
            ELSE CallMethod(T1, "get_egg", T.cmd.egg_id, NoEmail)
       [] o.kind # "Exception" /\ T.m = "get_egg" ->
            IF o.kind = "PteroError" THEN ErrorReply(T1, "Egg validation failed: {e}")
            ELSE CallMethod([T1 EXCEPT !.panel_user_email = SyntheticEmail(T.cmd.user)],
                            "find_user_by_email", Absent, SyntheticEmail(T.cmd.user))
       [] o.kind # "Exception" /\ T.m = "find_user_by_email" ->
            IF o.kind = "PteroError" THEN ErrorReply(T1, "User lookup/creation failed: {e}")
            ELSE IF o.kind = "None"
                 THEN CallMethod([T1 EXCEPT !.created_password = <<"generated">>,
                                            !.input = NewUserInput(T.cmd.user)],
                                 "create_user", Absent, T.panel_user_email)
                 ELSE ThenCreateServer([T1 EXCEPT !.panel_user = o.val])
       [] o.kind # "Exception" /\ T.m = "create_user" ->
            IF o.kind = "PteroError" THEN ErrorReply(T1, "User lookup/creation failed: {e}")
            ELSE ThenCreateServer([T1 EXCEPT !.panel_user = o.val])
       [] o.kind # "Exception" /\ T.m = "create_server" ->
            IF o.kind = "PteroError" THEN ErrorReply(T1, "Server creation failed: {e}")
            ELSE [T1 EXCEPT !.pc = "dm_or_log"]

\* A command other than createserver after its one client method has ended
\* with the result o: `except PteroError` replies with the error; the
\* notifying commands go on to dm_or_log, the others to their reply.
command(T, o) ==
  LET T1 == [T EXCEPT !.out = o]
  IN IF o.kind = "Exception" THEN Propagate(T1)
     ELSE IF o.kind = "PteroError" THEN ErrorReply(T1, ErrorText(T.op))
     ELSE IF T.op \in NotifyingCommands THEN [T1 EXCEPT !.pc = "dm_or_log"]
     ELSE [T1 EXCEPT !.pc = "reply"]

\* A method ends with the result o on the answer r: a command goes on; a
\* direct call is over, and its caller keeps the result and the last answer.
Finish(T, o, r) ==
  IF T.op = "createserver" THEN createserver([T EXCEPT !.outs = Append(T.outs, o.kind)], o)
  ELSE IF T.op \in Commands THEN command([T EXCEPT !.outs = Append(T.outs, o.kind)], o)
  ELSE [T EXCEPT !.pc = "done", !.out = o, !.answer = r, !.outs = Append(T.outs, o.kind)]

\* The request q is sent and answered by r.  The requests of the method
\* that is running are logged; a direct caller also keeps what the first
\* request of its call was answered.
Exchange(T, q, r) ==
  IF T.op \in Commands \/ T.reqs # <<>> THEN [T EXCEPT !.reqs = Append(T.reqs, q)]
  ELSE [T EXCEPT !.reqs = Append(T.reqs, q), !.first = <<Summary(r)>>]

(***************************************************************************)
(* Initial state: no call is running; the panel holds some accounts; the   *)
(* admin log channel is configured (1) or not (0).                         *)
(***************************************************************************)
Init ==
  /\ task = [t \in Tasks |-> IdleTask]
  /\ accounts \in AccountLists
  /\ posted = [e \in Emails |-> 0]
  /\ admin_log_channel_id \in {0, 1}

Methods == OneRequestMethods \cup {"get_egg", "find_user_by_email"}
IdsOf(m) ==
  IF m \in ListMethods \cup CreateMethods \cup SearchMethods
          \cup {"find_user_by_email", "panel_status", "list_eggs"}
  THEN {Absent} ELSE ResourceIds
EmailsOf(m) == IF m \in {"find_user_by_email", "create_user"} THEN Emails ELSE {NoEmail}

\* The resources an invoker may ask for: the least and the greatest the
\* commands accept, and those with values just outside a range.
ValidResources ==
  {[ram |-> MinRam, cpu |-> MinCpu, disk |-> MinDisk], [ram |-> MaxRam, cpu |-> MaxCpu, disk |-> MaxDisk]}
ResourceChoices ==
  ValidResources
  \cup {[v EXCEPT !.ram = x] : v \in ValidResources, x \in {MinRam - 1, MaxRam + 1}}
  \cup {[v EXCEPT !.cpu = x] : v \in ValidResources, x \in {MinCpu - 1, MaxCpu + 1}}
  \cup {[v EXCEPT !.disk = x] : v \in ValidResources, x \in {MinDisk - 1, MaxDisk + 1}}
  \cup {[ram |-> MaxRam + 1, cpu |-> MinCpu - 1, disk |-> MaxDisk + 1]}

CmdArgs ==
  {[node_id |-> 1, egg_id |-> e, user |-> u, ram |-> c.ram, cpu |-> c.cpu, disk |-> c.disk,
    target |-> Absent] : e \in ResourceIds, u \in UserIds, c \in ResourceChoices}

\* A caller invokes one method of the client.
StartMethod(t) ==
  /\ task[t].op = "idle"
  /\ \E m \in Methods : \E id \in IdsOf(m), email \in EmailsOf(m) :
       task' = [task EXCEPT ![t] = CallMethod([IdleTask EXCEPT !.op = m], m, id, email)]
  /\ UNCHANGED <<accounts, posted, admin_log_channel_id>>

\* A user invokes /createserver.
StartCommand(t, args) ==
  /\ task[t].op = "idle"
  /\ \E executor \in Executors :
       task' = [task EXCEPT ![t] =
         Gate([IdleTask EXCEPT !.op = "createserver", !.pc = "createserver", !.cmd = args,
                               !.executor = executor])]
  /\ UNCHANGED <<accounts, posted, admin_log_channel_id>>

\* createserver: defer, then the resource validation, then get_node is called.
Validate(t) ==
  LET T == task[t] IN
  /\ T.pc = "createserver"
  /\ task' = [task EXCEPT ![t] =
       IF T.cmd.ram < MinRam \/ T.cmd.ram > MaxRam
       THEN ErrorReply(T, "RAM must be between 128MB and 32768MB")
       ELSE IF T.cmd.cpu < MinCpu \/ T.cmd.cpu > MaxCpu
       THEN ErrorReply(T, "CPU must be between 1% and 400%")
       ELSE IF T.cmd.disk < MinDisk \/ T.cmd.disk > MaxDisk
       THEN ErrorReply(T, "Disk must be between 100MB and 1TB")
       ELSE CallMethod(T, "get_node", T.cmd.node_id, NoEmail)]
  /\ UNCHANGED <<accounts, posted, admin_log_channel_id>>

\* A method that issues one request: the request, the answer, the result.
OneRequest(t) ==
  LET T == task[t] IN
  /\ T.pc \in OneRequestMethods \cup ProbeMethods
  /\ \E r \in Responses(Bodies(T.m, T.email)) :
       /\ task' = [task EXCEPT ![t] =
            Finish(Exchange(IF T.m = "create_user"
                            THEN [T EXCEPT !.payload = <<create_user_payload(T.input, T.email)>>]
                            ELSE T,
                            RequestOf(T.m, T.id, T.email), r),
                   ResultOf(T.m, T.id, r), r)]
       /\ accounts' =
            IF r.fail \/ r.status \notin {200, 201, 204} THEN accounts
            ELSE IF T.m = "create_user" /\ r.status \in {200, 201}
                 THEN Append(accounts, Env(PanelNewAccount(T.email)))
            ELSE IF T.m = "delete_user" /\ r.status \in {200, 204}
                 THEN SelectSeq(accounts, LAMBDA u : Normalize(u).id # T.id)
            ELSE accounts
  /\ posted' = IF T.m = "create_user" /\ T.email \in Emails
                THEN [posted EXCEPT ![T.email] = @ + 1] ELSE posted
  /\ UNCHANGED admin_log_channel_id

\* get_egg, the direct attempt: `if r.status == 200`, with the request and
\* r.json() inside try/except Exception.
DirectHitOn201(r) == ~r.fail /\ r.status = 201 /\ r.json # <<>>

DirectHit(r) == ~r.fail /\ r.status = 200 /\ r.json # <<>>

\* get_egg, the direct attempt and what follows it.
GetEggDirect(t) ==
  /\ task[t].pc = "get_egg"
  /\ \E r \in Responses(Objects) :
       LET T == Exchange(task[t], Req("GET", "eggs/{egg_id}", task[t].id, NoEmail), r) IN
       task' = [task EXCEPT ![t] =
         IF DirectHit(r)
         THEN Finish(T, Return(Normalize(r.json[1])), r)
         ELSE [T EXCEPT !.pc = "get_egg_nests"]]
  /\ UNCHANGED <<accounts, posted, admin_log_channel_id>>

\* The loop of get_egg moves on to the next nest, or ends without a match.
NextNestOrNotFound(T, r) ==
  IF NextNest(T.nests, T.ni) = 0 THEN Finish(T, EggNotFound(T.id), r)
  ELSE [T EXCEPT !.ni = NextNest(T.nests, T.ni), !.pc = "get_egg_eggs"]

\* get_egg, the fallback: the nests are listed.
GetEggNests(t) ==
  /\ task[t].pc = "get_egg_nests"
  /\ \E r \in Responses(NestPages) :
       LET T == Exchange(task[t], Req("GET", "nests", Absent, NoEmail), r) IN
       task' = [task EXCEPT ![t] =
         IF r.fail THEN Finish(T, Exception("ClientError"), r)
         ELSE IF r.status # 200
         THEN Finish(T, PteroError(Msg("Unable to fetch nests to validate egg", Absent, Absent, NoText)), r)
         ELSE IF r.json = <<>> THEN Finish(T, Exception("JSONDecodeError"), r)
         ELSE NextNestOrNotFound([T EXCEPT !.nests = r.json[1], !.ni = 0], r)]
  /\ UNCHANGED <<accounts, posted, admin_log_channel_id>>

\* get_egg, the fallback: the eggs of the nest at position ni are listed.
GetEggEggs(t) ==
  /\ task[t].pc = "get_egg_eggs"
  /\ \E r \in Responses(EggPages) :
       LET T == Exchange(task[t], Req("GET", "nests/{nest_id}/eggs", NestId(task[t].nests[task[t].ni]), NoEmail), r) IN
       task' = [task EXCEPT ![t] =
         IF r.fail THEN Finish(T, Exception("ClientError"), r)
         ELSE IF r.status # 200 THEN NextNestOrNotFound(T, r)
         ELSE IF r.json = <<>> THEN Finish(T, Exception("JSONDecodeError"), r)
         ELSE IF FirstEgg(r.json[1], T.id) # <<>>
         THEN Finish(T, Return(Normalize(FirstEgg(r.json[1], T.id)[1])), r)
         ELSE NextNestOrNotFound(T, r)]
  /\ UNCHANGED <<accounts, posted, admin_log_channel_id>>

\* find_user_by_email, the filtered query.
FindUserFilter(t) ==
  /\ task[t].pc = "find_user_by_email"
  /\ \E r \in Responses(PanelFilterPages(task[t].email)) :
       LET T == Exchange(task[t], Req("GET", "users?filter[email]={email}", Absent, task[t].email), r) IN
       task' = [task EXCEPT ![t] =
         IF r.fail THEN Finish(T, Exception("ClientError"), r)
         ELSE IF r.status # 200 THEN [T EXCEPT !.pc = "find_user_list"]
         ELSE IF r.json = <<>> THEN Finish(T, Exception("JSONDecodeError"), r)
         ELSE Finish(T, FirstOfPage(r.json[1]), r)]
  /\ UNCHANGED <<accounts, posted, admin_log_channel_id>>

\* find_user_by_email, the fallback: list_users() and the scan of its page.
FindUserList(t) ==
  /\ task[t].pc = "find_user_list"
  /\ \E r \in Responses({accounts}) :
       LET T == Exchange(task[t], RequestOf("list_users", Absent, NoEmail), r) IN
       task' = [task EXCEPT ![t] =
         IF list_users(r).kind = "list"
         THEN Finish(T, ScanUsers(list_users(r).val, T.email), r)
         ELSE Finish(T, list_users(r), r)]
  /\ UNCHANGED <<accounts, posted, admin_log_channel_id>>

(***************************************************************************)
(* createserver after the server was created: dm_or_log, log_action and    *)
(* the reply to the invoker.  A message that carries the embed carries     *)
(* the generated password when a user was created.                         *)
(***************************************************************************)
Message(to, what, password) == [to |-> to, what |-> what, password |-> password]

\* A call of member.send, bot.get_channel or channel.send: `ok` is FALSE
\* when a send raised and when get_channel returned None.
Event(call, ok) == [call |-> call, ok |-> ok]

\* What follows dm_or_log: log_action in the commands of ServersCog, the
\* reply in delete_user of UsersCog.
AfterDm(T) == IF T.op = "UsersCog.delete_user" THEN "reply" ELSE "log_action"

\* dm_or_log: member.send(embed=embed), which may raise.
DmOrLog(t) ==
  LET T == task[t] IN
  /\ T.pc = "dm_or_log"
  /\ \E delivered \in BOOLEAN, channel \in BOOLEAN :
       task' = [task EXCEPT ![t] =
         IF delivered
         THEN [T EXCEPT !.sent = Append(T.sent, Message("member", "embed", T.created_password)),
                        !.events = Append(T.events, Event("member.send", TRUE)),
                        !.pc = AfterDm(T)]
         ELSE IF admin_log_channel_id = 0
         THEN [T EXCEPT !.events = Append(T.events, Event("member.send", FALSE)),
                        !.pc = AfterDm(T)]
         ELSE [T EXCEPT !.events = T.events \o <<Event("member.send", FALSE), Event("get_channel", channel)>>,
                        !.pc = IF channel THEN "dm_failed" ELSE AfterDm(T)]]
  /\ UNCHANGED <<accounts, posted, admin_log_channel_id>>

\* dm_or_log, in the except branch: channel.send("Failed to DM ...").
DmFailedNotice(t) ==
  LET T == task[t] IN
  /\ T.pc = "dm_failed"
  /\ \E delivered \in BOOLEAN :
       task' = [task EXCEPT ![t] =
         IF delivered
         THEN [T EXCEPT !.sent = Append(T.sent, Message("channel", "admin_message", <<>>)),
                        !.events = Append(T.events, Event("channel.send", TRUE)),
                        !.pc = AfterDm(T)]
         ELSE Propagate([T EXCEPT !.out = Exception("HTTPException"),
                                  !.events = Append(T.events, Event("channel.send", FALSE))])]
  /\ UNCHANGED <<accounts, posted, admin_log_channel_id>>

\* log_action: channel.send(content=..., embed=embed) when the channel is
\* configured and found.
LogAction(t) ==
  LET T == task[t] IN
  /\ T.pc = "log_action"
  /\ \E channel \in BOOLEAN, delivered \in BOOLEAN :
       task' = [task EXCEPT ![t] =
         IF admin_log_channel_id = 0 THEN [T EXCEPT !.pc = "reply"]
         ELSE IF ~channel
         THEN [T EXCEPT !.events = Append(T.events, Event("get_channel", FALSE)), !.pc = "reply"]
         ELSE IF delivered
         THEN [T EXCEPT !.sent = Append(T.sent,
                                   IF T.op = "createserver"
                                   THEN Message("channel", "embed", T.created_password)
                                   ELSE Message("channel", "content", <<>>)),
                        !.events = T.events \o <<Event("get_channel", TRUE), Event("channel.send", TRUE)>>,
                        !.pc = "reply"]
         ELSE Propagate([T EXCEPT !.out = Exception("HTTPException"),
                                  !.events = T.events \o <<Event("get_channel", TRUE),
                                                           Event("channel.send", FALSE)>>])]
  /\ UNCHANGED <<accounts, posted, admin_log_channel_id>>

\* interaction.followup.send(embed=self.embed.success(...))
SuccessReply(t) ==
  LET T == task[t] IN
  /\ T.pc = "reply"
  /\ task' = [task EXCEPT ![t] = [T EXCEPT !.pc = "done",
       !.reply = [kind |-> SuccessKind(T.op), text |-> SuccessText(T.op), msg |-> NoMsg]]]
  /\ UNCHANGED <<accounts, posted, admin_log_channel_id>>

(***************************************************************************)
(* The other methods of the client and the other commands.                 *)
(***************************************************************************)
\* Strings of a given length, and the inputs of create_user: names around
\* the limit of 191 characters, a password and an email longer than it.
Str(n) == [i \in 1..n |-> DigitChar(i % 10)]
LongEmail == Str(MaxNameLen + 9) \o EmailSuffix

CreateUserInputs ==
  {[username |-> Str(MaxNameLen + 1), first_name |-> Str(MaxNameLen), last_name |-> Str(250),
    password |-> Str(MaxNameLen + 9)],
   [username |-> Str(MaxNameLen - 1), first_name |-> Str(250), last_name |-> <<>>,
    password |-> Str(16)],
   [username |-> Str(250), first_name |-> Str(3), last_name |-> Str(MaxNameLen + 1),
    password |-> Str(16)]}

\* The pages the panel may answer a search with: servers and users, each
\* listed enveloped or bare.
MaxPage == 2
Queries == {<<>>, <<"a", "B">>, <<"C">>}

ServerRecords ==
  {[attrs |-> <<>>, name |-> <<"A", "b">>, identifier |-> <<"x">>],
   [attrs |-> <<>>, name |-> <<"x">>, identifier |-> <<"y", "a", "b">>],
   [attrs |-> <<>>, name |-> <<"c">>, identifier |-> <<"x">>]}
UserRecords ==
  {[attrs |-> <<>>, username |-> <<"A", "b">>, email |-> <<"x", "@", "y">>],
   [attrs |-> <<>>, username |-> <<"x">>, email |-> <<"a", "b", "@", "y">>],
   [attrs |-> <<>>, username |-> <<"c">>, email |-> <<"x", "@", "y">>]}
Listed(records) == records \cup {[attrs |-> <<a>>] : a \in records}

SearchPages(m) ==
  IF m = "search_servers" THEN SeqsUpTo(Listed(ServerRecords), MaxPage)
  ELSE SeqsUpTo(Listed(UserRecords), MaxPage)

\* The nests and the eggs the panel may answer list_eggs with.
ListEggsNestPages ==
  {p \in NestPages : \A i \in 1..Len(p) : p[i] \in {Env(Leaf(1, NoEmail)), Leaf(1, NoEmail)}}
ListEggsEggPages == {p \in EggPages : Len(p) <= 1}

\* The arguments a command is invoked with.
ArgsOf(name) ==
  IF name = "ServersCog.set_resources"
  THEN {[NoCmd EXCEPT !.target = 1, !.user = 2, !.ram = c.ram, !.cpu = c.cpu, !.disk = c.disk] :
          c \in ResourceChoices}
  ELSE IF name \in NotifyingCommands THEN {[NoCmd EXCEPT !.target = 1, !.user = 2]}
  ELSE IF name \in {"ServersCog.server_info", "UsersCog.change_password", "PanelCog.backup_list"}
  THEN {[NoCmd EXCEPT !.target = 1]}
  ELSE {NoCmd}

QueriesOf(m) == IF m \in SearchMethods THEN Queries ELSE {<<>>}

\* A caller invokes one of the other methods of the client.
StartOtherMethod(t) ==
  /\ task[t].op = "idle"
  /\ \E m \in OtherMethods : \E id \in IdsOf(m), query \in QueriesOf(m) :
       task' = [task EXCEPT ![t] =
         CallMethod([IdleTask EXCEPT !.op = m, !.query = query], m, id, NoEmail)]
  /\ UNCHANGED <<accounts, posted, admin_log_channel_id>>

\* A caller invokes create_user with names, a password and an email.
StartCreateUser(t) ==
  /\ task[t].op = "idle"
  /\ \E input \in CreateUserInputs, email \in Emails \cup {LongEmail} :
       task' = [task EXCEPT ![t] =
         CallMethod([IdleTask EXCEPT !.op = "create_user", !.input = input], "create_user", Absent, email)]
  /\ UNCHANGED <<accounts, posted, admin_log_channel_id>>

\* A user invokes a command other than /createserver.
Invoke(t) ==
  /\ task[t].op = "idle"
  /\ \E name \in Commands \ {"createserver"} :
     \E args \in ArgsOf(name), query \in QueriesOf(CommandMethod(name)), executor \in Executors :
       task' = [task EXCEPT ![t] =
         Gate([IdleTask EXCEPT !.op = name, !.pc = "command", !.cmd = args, !.query = query,
                               !.executor = executor])]
  /\ UNCHANGED <<accounts, posted, admin_log_channel_id>>

\* The callback of a command up to its first await on the client: ping and
\* help reply at once; manage sends its view; set_resources validates; the
\* others call their method of self.ptero, which raises AttributeError when
\* PteroAPI has no such method.
CommandBody(t) ==
  LET T == task[t] IN
  /\ T.pc = "command"
  /\ task' = [task EXCEPT ![t] =
       IF T.op \in {"PanelCog.ping", "PanelCog.help"}
       THEN [T EXCEPT !.pc = "done",
                      !.reply = [kind |-> SuccessKind(T.op), text |-> SuccessText(T.op), msg |-> NoMsg]]
       ELSE IF T.op = "PanelCog.manage"
       THEN [T EXCEPT !.pc = "manage_view",
                      !.reply = [kind |-> SuccessKind(T.op), text |-> SuccessText(T.op), msg |-> NoMsg]]
       ELSE IF T.op = "ServersCog.set_resources" /\ (T.cmd.ram < MinRam \/ T.cmd.ram > MaxRam)
       THEN ErrorReply(T, "Invalid RAM")
       ELSE IF T.op = "ServersCog.set_resources" /\ (T.cmd.cpu < MinCpu \/ T.cmd.cpu > MaxCpu)
       THEN ErrorReply(T, "Invalid CPU")
       ELSE IF T.op = "ServersCog.set_resources" /\ (T.cmd.disk < MinDisk \/ T.cmd.disk > MaxDisk)
       THEN ErrorReply(T, "Invalid Disk")
       ELSE IF CommandMethod(T.op) \notin PteroAPIMethods
       THEN Propagate([T EXCEPT !.out = Exception("AttributeError")])
       ELSE CallMethod(T, CommandMethod(T.op),
                       IF IdsOf(CommandMethod(T.op)) = {Absent} THEN Absent ELSE T.cmd.target,
                       NoEmail)]
  /\ UNCHANGED <<accounts, posted, admin_log_channel_id>>

\* The callbacks of the view of manage: NodeSelect reads self.ptero and
\* RefreshButton self.embed, attributes the items of the view do not have.
ManageCallback(t) ==
  LET T == task[t] IN
  /\ T.pc = "manage_view"
  /\ task' = [task EXCEPT ![t] = Propagate([T EXCEPT !.out = Exception("AttributeError")])]
  /\ UNCHANGED <<accounts, posted, admin_log_channel_id>>

\* search_servers and search_users: the list request for page 1 and the
\* scan of the page.
Search(t) ==
  LET T == task[t] IN
  /\ T.pc \in SearchMethods
  /\ \E r \in Responses(SearchPages(T.m)) :
       task' = [task EXCEPT ![t] =
         Finish(Exchange(T, RequestOf(IF T.m = "search_servers" THEN "list_servers" ELSE "list_users",
                                      Absent, NoEmail), r),
                IF T.m = "search_servers" THEN search_servers(T.query, r) ELSE search_users(T.query, r),
                r)]
  /\ UNCHANGED <<accounts, posted, admin_log_channel_id>>

\* The loop of list_eggs moves on to the next nest, or returns the eggs.
NextNestOrReturn(T, r) ==
  IF T.ni = Len(T.nests) THEN Finish(T, ReturnList(T.eggs), r)
  ELSE [T EXCEPT !.ni = T.ni + 1, !.pc = "list_eggs_eggs"]

\* list_eggs: the nests are listed.
ListEggsNests(t) ==
  /\ task[t].pc = "list_eggs"
  /\ \E r \in Responses(ListEggsNestPages) :
       LET T == Exchange(task[t], Req("GET", "nests", Absent, NoEmail), r) IN
       task' = [task EXCEPT ![t] =
         IF r.fail THEN Finish(T, Exception("ClientError"), r)
         ELSE IF r.status # 200
         THEN Finish(T, PteroError(Msg("Failed to fetch nests/eggs", Absent, Absent, NoText)), r)
         ELSE IF r.json = <<>> THEN Finish(T, Exception("JSONDecodeError"), r)
         ELSE NextNestOrReturn([T EXCEPT !.nests = r.json[1], !.ni = 0, !.eggs = <<>>], r)]
  /\ UNCHANGED <<accounts, posted, admin_log_channel_id>>

\* list_eggs: the eggs of the nest at position ni are listed and appended,
\* each normalized.
ListEggsEggs(t) ==
  /\ task[t].pc = "list_eggs_eggs"
  /\ \E r \in Responses(ListEggsEggPages) :
       LET T == Exchange(task[t], Req("GET", "nests/{nest_id}/eggs", NestId(task[t].nests[task[t].ni]), NoEmail), r) IN
       task' = [task EXCEPT ![t] =
         IF r.fail THEN Finish(T, Exception("ClientError"), r)
         ELSE IF r.status # 200 THEN NextNestOrReturn(T, r)
         ELSE IF r.json = <<>> THEN Finish(T, Exception("JSONDecodeError"), r)
         ELSE NextNestOrReturn(
                [T EXCEPT !.eggs = T.eggs \o [i \in 1..Len(r.json[1]) |-> Normalize(r.json[1][i])]], r)]
  /\ UNCHANGED <<accounts, posted, admin_log_channel_id>>

\* The steps of the other methods and commands.
OtherStep(t) ==
  \/ CommandBody(t)
  \/ ManageCallback(t)
  \/ Search(t)
  \/ ListEggsNests(t)
  \/ ListEggsEggs(t)

Step(t) ==
  \/ Validate(t)
  \/ OneRequest(t)
  \/ GetEggDirect(t)
  \/ GetEggNests(t)
  \/ GetEggEggs(t)
  \/ FindUserFilter(t)
  \/ FindUserList(t)
  \/ DmOrLog(t)
  \/ DmFailedNotice(t)
  \/ LogAction(t)
  \/ SuccessReply(t)

(***************************************************************************)
(* Spec: one caller at a time invokes a client method or the command.      *)
(***************************************************************************)
Next ==
  \/ StartMethod(1)
  \/ StartOtherMethod(1)
  \/ StartCreateUser(1)
  \/ \E args \in CmdArgs : StartCommand(1, args)
  \/ Invoke(1)
  \/ Step(1)
  \/ OtherStep(1)

Spec == Init /\ [][Next]_vars

(***************************************************************************)
(* SpecConcurrent: createserver invocations with valid resources run       *)
(* interleaved on an initially empty panel, suspending at every await.     *)
(***************************************************************************)
ConcurrentArgs ==
  [node_id : {1}, egg_id : {1}, user : UserIds, ram : {MinRam}, cpu : {MaxCpu}, disk : {MaxDisk},
   target : {Absent}]

InitConcurrent ==
  /\ task = [t \in Tasks |-> IdleTask]
  /\ accounts = <<>>
  /\ posted = [e \in Emails |-> 0]
  /\ admin_log_channel_id \in {0, 1}

NextConcurrent ==
  \E t \in Tasks :
    \/ \E args \in ConcurrentArgs : StartCommand(t, args)
    \/ Step(t)

SpecConcurrent == InitConcurrent /\ [][NextConcurrent]_vars

(***************************************************************************)
(* Properties.                                                             *)
(***************************************************************************)
Over(T) == T.pc = "done"
Answered200(r) == ~r.fail /\ r.status = 200
FirstFailed(T) == T.first # <<>> /\ T.first[1].status # 200

SuccessSet(m) ==
  IF m \in CreateMethods THEN {200, 201} ELSE IF m \in MutateMethods THEN {200, 204} ELSE {200}

\* C1: a single-resource fetch (get_node, get_server, get_egg on its direct
\* path) answered 200 returns the contents of `attributes` when the body has
\* that field, and the body unchanged when it has not.
C1_FetchReturnsAttributes ==
  \A t \in Tasks :
    LET T == task[t] IN
    (/\ Over(T) /\ T.op \in {"get_node", "get_server", "get_egg"} /\ Len(T.reqs) = 1
     /\ Answered200(T.answer) /\ T.answer.json # <<>>)
    => T.out = Return(IF T.answer.json[1].attrs # <<>> THEN T.answer.json[1].attrs[1]
                      ELSE T.answer.json[1])

\* C2: a fetch, list, create or mutate operation answered with a status
\* outside its success set raises a PteroError whose message contains the
\* status code.
C2_FailureNamesStatus ==
  \A t \in Tasks :
    LET T == task[t] IN
    (/\ Over(T) /\ T.op \in OneRequestMethods
     /\ ~T.answer.fail /\ T.answer.status \notin SuccessSet(T.op))
    => (T.out.kind = "PteroError" /\ T.out.msg.status = T.answer.status)

\* C3: a client method ends by returning or by raising PteroError, whatever
\* the panel does (any status, or a request that fails); no other exception
\* escapes.
C3_OnlyPteroErrorEscapes ==
  \A t \in Tasks :
    LET T == task[t] IN
    (Over(T) /\ T.op \in Methods /\ (T.answer.fail \/ T.answer.json # <<>>))
    => T.out.kind \in {"object", "None", "True", "list", "PteroError"}

\* C4: get_egg and find_user_by_email go on to their fallback whenever the
\* first attempt fails (non-200 status or request error): the call never
\* ends on the first request with that failure.
C4_FallbackOnAnyFailure ==
  \A t \in Tasks :
    LET T == task[t] IN
    (T.op \in {"get_egg", "find_user_by_email"} /\ FirstFailed(T))
    => ~(Over(T) /\ Len(T.reqs) = 1)

IdNests(nestlist) == SelectSeq(nestlist, LAMBDA n : ~Falsy(NestId(n)))

EggsRequest(nest) == Req("GET", "nests/{nest_id}/eggs", NestId(nest), NoEmail)
NestsRequest == Req("GET", "nests", Absent, NoEmail)

\* The eggs of a page that have the requested id.
Hits(page, egg_id) == {j \in 1..Len(page) : EggMatches(page[j], egg_id)}

\* get_egg found its egg in the eggs page that was answered last.
FoundInLastPage(T) ==
  /\ Answered200(T.answer) /\ T.answer.json # <<>> /\ Hits(T.answer.json[1], T.id) # {}
  /\ \E j \in Hits(T.answer.json[1], T.id) :
       /\ \A k \in Hits(T.answer.json[1], T.id) : j <= k
       /\ T.out = Return(Normalize(T.answer.json[1][j]))

\* The requests of a get_egg call whose direct attempt failed are the direct
\* request, one nests-list request and one eggs-list request for each of
\* the first nests of `scanned`, in order; a call that returns an egg found
\* it in the page of the last nest it asked for, and a call that reports
\* the egg missing has asked for every nest of `scanned`.
ScanFollows(T, scanned) ==
  /\ T.reqs[1] = Req("GET", "eggs/{egg_id}", T.id, NoEmail)
  /\ Len(T.reqs) >= 2 => T.reqs[2] = NestsRequest
  /\ Len(T.reqs) - 2 <= Len(scanned)
  /\ \A j \in 3..Len(T.reqs) : T.reqs[j] = EggsRequest(scanned[j - 2])
  /\ (Over(T) /\ T.out.kind = "object") => (Len(T.reqs) >= 3 /\ FoundInLastPage(T))
  /\ (Over(T) /\ T.out = EggNotFound(T.id)) => Len(T.reqs) = 2 + Len(scanned)

Exhausted(T) ==
  /\ T.op = "get_egg" /\ Over(T) /\ FirstFailed(T) /\ ~T.answer.fail
  /\ \/ /\ Len(T.reqs) = 2 /\ T.answer.status = 200 /\ T.answer.json # <<>>
        /\ IdNests(T.answer.json[1]) = <<>>
     \/ /\ Len(T.reqs) > 2 /\ Len(T.reqs) = 2 + Len(IdNests(T.nests))
        /\ \/ T.answer.status # 200
           \/ T.answer.json # <<>> /\ Hits(T.answer.json[1], T.id) = {}

\* C7: when the direct attempt failed and every nest has been examined
\* without a match, get_egg raises a PteroError whose message names the egg
\* id.
C7_NotFoundNamesEgg ==
  \A t \in Tasks :
    Exhausted(task[t])
    => /\ task[t].out.kind = "PteroError"
       /\ task[t].out.msg.fmt = "Egg {egg_id} not found"
       /\ task[t].out.msg.id = task[t].id

C7_Witness == \E t \in Tasks : Exhausted(task[t]) /\ Len(task[t].reqs) = 4

\* The first user of the first page whose email is the requested one.
FirstWithEmail(page, email) ==
  LET Same == {j \in 1..Len(page) : Normalize(page[j]).email = email}
  IN IF Same = {} THEN ReturnNone
     ELSE Return(Normalize(page[CHOOSE j \in Same : \A k \in Same : j <= k]))

\* C8: find_user_by_email issues GET requests only, and when the filtered
\* query fails it returns the first user of the first page whose email
\* equals the requested email, or no user when the page has none.
C8_LookupOnly ==
  \A t \in Tasks :
    LET T == task[t] IN
    T.op = "find_user_by_email" =>
      /\ \A j \in 1..Len(T.reqs) : T.reqs[j].verb = "GET"
      /\ (/\ Over(T) /\ FirstFailed(T)
          /\ ~(Len(T.reqs) = 2 /\ (~Answered200(T.answer) \/ T.answer.json = <<>>)))
         => T.out = FirstWithEmail(accounts, T.email)

\* The panel holds an account for the email.
HasAccount(email) == \E i \in 1..Len(accounts) : Normalize(accounts[i]).email = email

\* C9: however createserver invocations for one chat identity are ordered
\* or interleaved, the identity maps to one panel account: once the panel
\* holds the account of the identity's synthetic email, invocations find it
\* by lookup and no further create-user request is issued for that email.
C9_OneCreateUserPerIdentity ==
  [][\A e \in Emails : posted'[e] > posted[e] => ~HasAccount(e)]_vars

\* The number a sequence of decimal digit characters denotes; -1 when a
\* character is not a digit.
DigitValue(c) ==
  IF \E d \in 0..9 : DigitChar(d) = c THEN CHOOSE d \in 0..9 : DigitChar(d) = c ELSE -1

RECURSIVE ParseDecimal(_)
ParseDecimal(cs) ==
  IF cs = <<>> THEN 0
  ELSE IF DigitValue(cs[Len(cs)]) = -1 \/ ParseDecimal(SubSeq(cs, 1, Len(cs) - 1)) = -1 THEN -1
  ELSE 10 * ParseDecimal(SubSeq(cs, 1, Len(cs) - 1)) + DigitValue(cs[Len(cs)])

\* `email` is "discord-", the decimal numeral of n without a leading zero,
\* and "@local".
IsDiscordEmail(email, n) ==
  LET k == Len(email) - Len(EmailPrefix) - Len(EmailSuffix)
      numeral == SubSeq(email, Len(EmailPrefix) + 1, Len(EmailPrefix) + k)
  IN /\ k >= 1
     /\ SubSeq(email, 1, Len(EmailPrefix)) = EmailPrefix
     /\ SubSeq(email, Len(email) - Len(EmailSuffix) + 1, Len(email)) = EmailSuffix
     /\ ParseDecimal(numeral) = n
     /\ (k > 1 => numeral[1] # "0")

\* C10: the email createserver derives for the chat identity with id N is
\* exactly discord-N@local, and no other id has the same email.
C10_SyntheticEmail ==
  \A t \in Tasks :
    LET T == task[t] IN
    T.panel_user_email # NoEmail =>
      /\ IsDiscordEmail(T.panel_user_email, T.cmd.user)
      /\ \A n \in 0..(10 * MaxUserId) : n # T.cmd.user => SyntheticEmail(n) # T.panel_user_email
      /\ \A u \in Tasks : (task[u].panel_user_email = T.panel_user_email) <=>
                          (task[u].panel_user_email # NoEmail /\ task[u].cmd.user = T.cmd.user)

C10_Witness ==
  \E t \in Tasks :
    /\ task[t].cmd.user = MaxUserId
    /\ task[t].panel_user_email # NoEmail
    /\ task[t].m = "find_user_by_email"

\* C11: create_user and create_server treat exactly the statuses 200 and
\* 201 as success and return the created record normalized (the contents of
\* `attributes` when the body has that field, else the body); any other
\* status raises a PteroError whose message includes the body text.
C11_CreateSuccessSet ==
  \A t \in Tasks :
    LET T == task[t] IN
    (Over(T) /\ T.op \in CreateMethods /\ ~T.answer.fail) =>
      /\ (T.answer.status \in {200, 201} /\ T.answer.json # <<>>)
           => T.out = Return(IF T.answer.json[1].attrs # <<>> THEN T.answer.json[1].attrs[1]
                             ELSE T.answer.json[1])
      /\ T.answer.status \notin {200, 201}
           => /\ T.out.kind = "PteroError"
              /\ T.out.msg.text = T.answer.text /\ T.answer.text # NoText

C11_Witness ==
  \E t \in Tasks :
    /\ Over(task[t]) /\ task[t].op = "create_user"
    /\ ~task[t].answer.fail /\ task[t].answer.status = 204 /\ task[t].answer.text = "invalid"
    /\ task[t].out.kind = "PteroError"

\* C12: delete_user, delete_server, suspend_server, unsuspend_server,
\* set_server_resources and change_user_password treat exactly the statuses
\* 200 and 204 as success and return True; any other status raises a
\* PteroError whose message includes the body text.
C12_MutateSuccessSet ==
  \A t \in Tasks :
    LET T == task[t] IN
    (Over(T) /\ T.op \in MutateMethods /\ ~T.answer.fail) =>
      /\ T.answer.status \in {200, 204} => T.out = ReturnTrue
      /\ T.answer.status \notin {200, 204}
           => /\ T.out.kind = "PteroError"
              /\ T.out.msg.text = T.answer.text /\ T.answer.text # NoText

C12_Witness ==
  \E t \in Tasks :
    /\ Over(task[t]) /\ task[t].op = "set_server_resources"
    /\ ~task[t].answer.fail /\ task[t].answer.status = 201 /\ task[t].answer.text = "denied"
    /\ task[t].out.kind = "PteroError"

\* C13: maintenance_on and maintenance_off, invoked by an admin, perform
\* the client operation of the same name and end with the success reply
\* (the panel answered 200 or 204) or with an error reply built from a
\* PteroError (any other status).
C13_MaintenanceEndsWithReply ==
  \A t \in Tasks :
    LET T == task[t] IN
    (/\ Over(T) /\ T.op \in {"PanelCog.maintenance_on", "PanelCog.maintenance_off"}
     /\ T.executor \in ADMIN_IDS)
    => /\ T.calls = <<CommandMethod(T.op)>>
       /\ \/ T.reply.kind = "success" /\ T.out = ReturnTrue
          \/ T.reply.kind = "error" /\ T.out.kind = "PteroError"

\* C14: get_node and get_server answered with a status other than 200 raise
\* a PteroError whose message embeds the status code and the identifier of
\* the requested resource.
C14_FetchFailureNamesStatusAndId ==
  \A t \in Tasks :
    LET T == task[t] IN
    (Over(T) /\ T.op \in FetchMethods /\ ~T.answer.fail /\ T.answer.status # 200) =>
      /\ T.out.kind = "PteroError"
      /\ T.out.msg.status = T.answer.status
      /\ T.out.msg.id = T.id

\* C15: panel_status never raises: it returns "OK" when the panel answers
\* 200 and, for every other outcome, a status-unclear string that embeds the
\* status code.
C15_PanelStatusNeverRaises ==
  \A t \in Tasks :
    LET T == task[t] IN
    (Over(T) /\ T.op = "panel_status") =>
      /\ T.out.kind = "str"
      /\ Answered200(T.answer) => T.out.msg.fmt = "OK"
      /\ ~Answered200(T.answer) =>
           T.out.msg.fmt = "Unclear (status {status})" /\ T.out.msg.status = T.answer.status

\* The record of a listed entry: the contents of `attributes` when it has
\* that field, else the entry.
Record(item) == IF item.attrs # <<>> THEN item.attrs[1] ELSE item

\* The records of a page one of whose fields contains the query, the case
\* of both ignored, in page order.
Matching(page, query, fields) ==
  SelectSeq([i \in 1..Len(page) |-> Record(page[i])],
            LAMBDA a : \E k \in fields :
              \E i \in 0..(Len(a[k]) - Len(query)) :
                Lower(SubSeq(a[k], i + 1, i + Len(query))) = Lower(query))

\* C16: search_servers and search_users issue exactly one list request, for
\* page 1, and return exactly the records of that page one of whose
\* searched fields (name or identifier, username or email) contains the
\* query as a case-insensitive substring, in page order.
C16_SearchFirstPage ==
  \A t \in Tasks :
    LET T == task[t] IN
    (Over(T) /\ T.op \in SearchMethods) =>
      /\ T.reqs = <<Req("GET", IF T.op = "search_servers" THEN "servers?page={page}"
                               ELSE "users?page={page}", 1, NoEmail)>>
      /\ (Answered200(T.answer) /\ T.answer.json # <<>> /\ T.query # <<>>) =>
           T.out = ReturnList(Matching(T.answer.json[1], T.query,
                                       IF T.op = "search_servers" THEN {"name", "identifier"}
                                       ELSE {"username", "email"}))

\* s is the first characters of w.
IsPrefix(s, w) == Len(s) <= Len(w) /\ s = SubSeq(w, 1, Len(s))

\* C17: in the body of the create-user request, username, first_name and
\* last_name are each at most 191 characters long and a prefix of the value
\* supplied; a value of 191 characters or fewer is sent unchanged; email
\* and password are sent as supplied.
C17_NamesTruncated ==
  \A t \in Tasks :
    LET T == task[t] IN
    T.payload # <<>> =>
      /\ \A k \in {"username", "first_name", "last_name"} :
           /\ Len(T.payload[1][k]) <= 191
           /\ IsPrefix(T.payload[1][k], T.input[k])
           /\ Len(T.input[k]) <= 191 => T.payload[1][k] = T.input[k]
      /\ T.payload[1].email = (IF T.op = "createserver" THEN T.panel_user_email ELSE T.email)
      /\ T.payload[1].password = T.input.password

C17_Witness ==
  \E t \in Tasks :
    /\ task[t].op = "create_user" /\ task[t].payload # <<>>
    /\ Len(task[t].input.username) = 192 /\ Len(task[t].payload[1].username) = 191
    /\ Len(task[t].input.first_name) = 191
    /\ Len(task[t].email) > 191 /\ Len(task[t].input.password) > 191

\* C18: no panel request is issued on behalf of an executor whose id is not
\* in ADMIN_IDS: a command invoked by such an executor enters no client
\* method and sends no request; every command that calls a client method
\* is gated, and the ungated commands (ping, help) call none.
C18_OnlyAdminsReachThePanel ==
  /\ \A t \in Tasks :
       LET T == task[t] IN
       T.op \in Commands =>
         /\ T.executor \notin ADMIN_IDS => (T.calls = <<>> /\ T.reqs = <<>>)
         /\ T.op \in {"PanelCog.ping", "PanelCog.help"} => (T.calls = <<>> /\ T.reqs = <<>>)
  /\ \A name \in Commands :
       (name = "createserver" \/ CommandMethod(name) # "") => Gated(name)

C18_Witness ==
  \E t \in Tasks :
    /\ task[t].op = "UsersCog.delete_user" /\ task[t].executor \notin ADMIN_IDS
    /\ Over(task[t]) /\ task[t].reply.kind = "check_failure"

\* RAM is in [128, 32768], CPU in [1, 400] and disk in [100, 1000000].
InRange(cmd) ==
  /\ 128 <= cmd.ram /\ cmd.ram <= 32768
  /\ 1 <= cmd.cpu /\ cmd.cpu <= 400
  /\ 100 <= cmd.disk /\ cmd.disk <= 1000000

\* C19: createserver and set_resources enter no client method and send no
\* request unless RAM, CPU and disk are each in range, bounds included: with
\* a value out of range the command ends with an error reply, and with
\* every value in range it goes on to its first client method.
C19_ResourcesValidatedFirst ==
  \A t \in Tasks :
    LET T == task[t] IN
    (T.op \in {"createserver", "ServersCog.set_resources"} /\ T.executor \in ADMIN_IDS) =>
      /\ ~InRange(T.cmd) =>
           /\ T.calls = <<>> /\ T.reqs = <<>>
           /\ T.pc \in {"createserver", "command", "done"}
           /\ Over(T) => T.reply.kind = "error"
      /\ (InRange(T.cmd) /\ T.pc \notin {"createserver", "command"}) => T.calls # <<>>

C19_Witness ==
  \E t \in Tasks :
    /\ task[t].op = "ServersCog.set_resources" /\ task[t].cmd.disk = 1000001
    /\ Over(task[t]) /\ task[t].reply.text = "Invalid Disk" /\ task[t].calls = <<>>

\* C20: createserver calls get_node, get_egg, find_user_by_email, create_user
\* (only when no user was found) and create_server in that order; a
\* PteroError at a step ends the command with an error reply and no later
\* step; create_server is called only after the node, the egg and the user
\* have been obtained.
C20_CreateServerStepsInOrder ==
  \A t \in Tasks :
    LET T == task[t] IN
    T.op = "createserver" =>
      /\ \/ IsPrefix(T.calls, <<"get_node", "get_egg", "find_user_by_email", "create_user", "create_server">>)
         \/ IsPrefix(T.calls, <<"get_node", "get_egg", "find_user_by_email", "create_server">>)
      /\ Len(T.outs) <= Len(T.calls)
      /\ \A i \in 1..Len(T.outs) :
           T.outs[i] = "PteroError" =>
             /\ i = Len(T.calls) /\ Over(T) /\ T.reply.kind = "error"
      /\ \A i \in 1..Len(T.calls) :
           /\ T.calls[i] = "create_user" => T.outs[i - 1] = "None"
           /\ T.calls[i] = "create_server" =>
                /\ \A j \in 1..(i - 1) : T.outs[j] \in {"object", "None"}
                /\ T.outs[i - 1] = "object"

C20_Witness ==
  \E t \in Tasks :
    /\ task[t].op = "createserver" /\ Over(task[t]) /\ task[t].reply.kind = "error"
    /\ task[t].calls = <<"get_node", "get_egg", "find_user_by_email", "create_user">>
    /\ task[t].outs = <<"object", "object", "None", "PteroError">>

\* createserver has created a panel user: its call of create_user returned.
CreatedUser(T) ==
  \E i \in 1..Len(T.outs) : T.calls[i] = "create_user" /\ T.outs[i] = "object"

\* C21: whenever createserver has created a panel user, the invocation does
\* not end before the generated password was sent, in the embed, to the
\* member or to the admin log channel.  Stated for the invocations that end
\* with a reply to the invoker.
C21_PasswordDelivered ==
  \A t \in Tasks :
    LET T == task[t] IN
    (T.op = "createserver" /\ Over(T) /\ CreatedUser(T) /\ T.reply.kind # "raised") =>
      \E i \in 1..Len(T.sent) :
        /\ T.sent[i].what = "embed"
        /\ T.sent[i].password # <<>>
        /\ T.sent[i].password = T.created_password

\* The failure notices the command has sent to the admin log channel.
Notices(T) == {i \in 1..Len(T.sent) : T.sent[i] = Message("channel", "admin_message", <<>>)}

\* The direct message failed and the admin log channel is configured and
\* was resolved.
DmFailedChannelFound(T) ==
  /\ ~T.events[1].ok
  /\ admin_log_channel_id # 0
  /\ Len(T.events) >= 2 /\ T.events[2] = Event("get_channel", TRUE)

\* C22: a notifying command (delete_server, suspend, unsuspend,
\* set_resources, delete_user) whose panel call succeeded sends the member a
\* direct message; when that message fails and the admin log channel is
\* configured and resolved, one failure notice goes to the channel; whether
\* the message went through, the notice was sent, or no channel is
\* configured, the command ends with its success reply.  When the panel
\* call raised PteroError nothing is sent and the reply is the error.
C22_NotifyThenReply ==
  \A t \in Tasks :
    LET T == task[t] IN
    (Over(T) /\ T.op \in NotifyingCommands) =>
      /\ T.outs = <<"True">> =>
           /\ T.events # <<>> /\ T.events[1].call = "member.send"
           /\ T.events[1].ok => T.sent[1] = Message("member", "embed", <<>>)
           /\ DmFailedChannelFound(T) => Cardinality(Notices(T)) = 1
           /\ (\/ T.events[1].ok
               \/ DmFailedChannelFound(T) /\ Cardinality(Notices(T)) = 1
               \/ admin_log_channel_id = 0)
              => T.reply.kind = "success" /\ T.reply.text = SuccessText(T.op)
      /\ T.outs = <<"PteroError">> =>
           /\ T.sent = <<>> /\ T.events = <<>>
           /\ T.reply.kind = "error" /\ T.reply.text = ErrorText(T.op)
           /\ T.reply.msg = T.out.msg

\* C23: when the filtered query of find_user_by_email answers 200, the call
\* ends on that request, without the list request of the fallback, and
\* (the body being a page) returns the first entry of the page, the contents
\* of its `attributes` when it has that field, whatever the email of that
\* entry, or no user when the page is empty.
C23_FilterHitTakesFirst ==
  \A t \in Tasks :
    LET T == task[t] IN
    (T.op = "find_user_by_email" /\ T.first # <<>> /\ T.first[1].status = 200) =>
      /\ Over(T)
      /\ T.reqs = <<Req("GET", "users?filter[email]={email}", Absent, T.email)>>
      /\ T.first[1].json =>
           LET page == T.answer.json[1] IN
           T.out = IF page = <<>> THEN ReturnNone
                   ELSE Return(IF page[1].attrs # <<>> THEN page[1].attrs[1] ELSE page[1])

C23_Witness ==
  \E t \in Tasks :
    LET T == task[t] IN
    /\ T.op = "find_user_by_email" /\ Over(T)
    /\ T.first = <<[status |-> 200, json |-> TRUE]>>
    /\ Len(T.answer.json[1]) >= 2
    /\ T.out.kind = "object"
    /\ T.out.val[1].email # T.email
    /\ T.out.val[1] # Normalize(T.answer.json[1][Len(T.answer.json[1])])

====
